---- MODULE Spec2Model ----
(***************************************************************************)
(* Model of ChunkProcessorWorker (src/client/piper_api_gui.py): one run of *)
(* the chunk dispatch / collect / stitch / cleanup pipeline.               *)
(*                                                                         *)
(* Threads of the model:                                                   *)
(*   - the thread that executes run() (submission loop, as_completed       *)
(*     loop, post-processing), whose position is pc;                       *)
(*   - the ThreadPoolExecutor's worker threads, each executing one         *)
(*     _synthesize_chunk call at a time; the position of the call for      *)
(*     chunk index i is fut[i];                                            *)
(*   - the caller's thread, which may call stop() at any moment.           *)
(*                                                                         *)
(* Environment choices (the server's answer, the length of the body, a     *)
(* transport error, a failing makedirs, a failing wave read) are drawn     *)
(* with \E.  Deleting a file that exists is taken to succeed.              *)
(***************************************************************************)
EXTENDS Integers, Sequences, FiniteSets, TLC

\* ------------------------------------------------------------------ bounds
\* Largest number of text chunks of a run (len(self.text_chunks)).
MaxChunks == 3
\* Largest number of 8192-byte blocks in one response body.
MaxBlocks == 1
\* Pool sizes explored by SpecPool go from 1 to MaxPool.
MaxPool == 2
\* Longest text handed to the chunker by SpecChunker.
MaxTextLen == 4
\* SpecGui offers texts of 0 .. MaxGuiChunks chunks.
MaxGuiChunks == 2
\* Longest response body, in blocks, in SpecFetch.
MaxStreamBlocks == 12
\* SpecFaulty runs texts of 0 .. MaxFaultyChunks chunks.
MaxFaultyChunks == 2
MaxAudioLen == 2

\* ------------------------------------------------------- program constants
\* self.max_workers = 12
DefaultMaxWorkers == 12
\* if i % 10 == 0 and self._stop_requested
CheckEvery == 10

VARIABLES
    total_chunks,     \* len(self.text_chunks)
    max_workers,      \* self.max_workers
    is_running,       \* self._is_running
    stop_requested,   \* self._stop_requested
    pc,               \* position of run()
    next_i,           \* loop variable i of the submission loop
    fut,              \* per chunk index: state of its future / fetcher call
    ret,              \* per chunk index: how _synthesize_chunk returned
    began_stopped,    \* history: indices whose call began while the flag was set
    posted,           \* indices for which requests.post was called
    disk,             \* temporary files: path -> size in blocks
    drained,          \* futures already yielded by as_completed
    results,          \* the dict results, in insertion order: <<key, value>>
    chunks_processed, \* the local counter chunks_processed
    temp_files,       \* self.temp_files
    output,           \* the file at final_output_filepath
    events,           \* signals emitted and helper calls made, in order
    stop_called,      \* history: stop() took effect during this run
    text,             \* self.text_edit.toPlainText(), a sequence of characters
    api_url,          \* self.api_url_entry.text()
    output_filepath,  \* self.output_file_path_entry.text()
    text_chunks,      \* self.text_chunks
    worker_thread,    \* self.worker_thread: "None", or the state of the QThread
    workers_created,  \* history: number of ChunkProcessorWorker objects created
    finished_handled, \* on_synthesis_finished ran for the worker's signal
    start_result,     \* how the last call of start_synthesis ended
    max_blocks,       \* environment: the longest response body, in blocks
    fs_faulty,        \* environment: os.remove may raise OSError
    flag_blocks,      \* history: per chunk, blocks written while the flag was set
    server_request,   \* piper_api.py: the POST /synthesize being handled
    server_env,       \* piper_api.py: what running the synthesizer does
    server_response   \* piper_api.py: the answer to the request

\* The window's fields and the worker's chunk list: run() and
\* _synthesize_chunk leave them alone.
gui_vars == <<text, api_url, output_filepath, text_chunks, worker_thread,
              workers_created, finished_handled, start_result>>

\* The environment of the fetches.
env_vars == <<max_blocks, fs_faulty>>

\* The server's variables (src/server/piper_api.py).
server_vars == <<server_request, server_env, server_response>>

vars == <<total_chunks, max_workers, is_running, stop_requested, pc, next_i,
          fut, ret, began_stopped, posted, disk, drained, results, chunks_processed,
          temp_files, output, events, stop_called, gui_vars, env_vars, flag_blocks,
          server_vars>>

\* ----------------------------------------------------------------- helpers
\* Chunk indices of the largest run.
AllIdx == 0 .. (MaxChunks - 1)

\* temp_output_path = f"{self.temp_base_name}_{chunk_num:04d}.wav": one path
\* per chunk ordinal, distinct for distinct ordinals.
TempPath(chunk_num) == <<"piper_chunk", chunk_num>>

\* Elements of a sequence.
Range(s) == {s[k] : k \in DOMAIN s}

\* results.keys()
DictKeys(d) == {d[k][1] : k \in DOMAIN d}

\* results[key] = val: a new key goes last, an existing key keeps its place.
DictPut(d, key, val) ==
    IF key \in DictKeys(d)
    THEN [k \in DOMAIN d |-> IF d[k][1] = key THEN <<key, val>> ELSE d[k]]
    ELSE Append(d, <<key, val>>)

\* results[key]
DictGet(d, key) == d[CHOOSE k \in DOMAIN d : d[k][1] = key][2]

\* list(results.values()): insertion order.
DictValues(d) == [k \in DOMAIN d |-> d[k][2]]

\* sorted(S) for a set of integers.
RECURSIVE sorted(_)
sorted(S) ==
    IF S = {} THEN <<>>
    ELSE LET m == CHOOSE x \in S : \A y \in S : x <= y
         IN  <<m>> \o sorted(S \ {m})

\* Mutant of OrderedTempFiles: the values in the order the results arrived.
CompletionOrderTempFiles(d) == DictValues(d)

\* [results[i] for i in sorted(results.keys())]
OrderedTempFiles(d) ==
    LET ks == sorted(DictKeys(d))
    IN  [k \in DOMAIN ks |-> DictGet(d, ks[k])]

\* os.path.exists(p) for a temporary file.
Exists(d, p) == p \in DOMAIN d

\* Mutant of Remove: the file stays.
RemoveNothing(d, p) == d

\* os.remove(p) when the file exists.
Remove(d, p) == [q \in (DOMAIN d) \ {p} |-> d[q]]

\* open(p, 'wb'): creates or truncates.
Create(d, p) == [q \in (DOMAIN d) \cup {p} |-> IF q = p THEN 0 ELSE d[q]]

\* f.write(audio_chunk): one more block.
WriteBlock(d, p) == [d EXCEPT ![p] = @ + 1]

\* _cleanup_temp_files(files_to_delete): every listed file that exists is
\* removed.
cleanup_temp_files(d, files_to_delete) ==
    [q \in (DOMAIN d) \ Range(files_to_delete) |-> d[q]]

\* An entry of events: the signal emitted (or the helper called), its integer
\* argument (the progress value, the chunk ordinal, a number of files) and a
\* word saying where it comes from.
Ev(name, a, b) == <<name, a, b>>

\* Mutant of ProgressTotal: no slot is reserved for the combine phase.
ProgressTotalNoReserve == total_chunks

\* The second argument of every progress_update: total_chunks + 1.
ProgressTotal == total_chunks + 1

\* self.progress_update.emit(value, total_chunks + 1, message): the entry of
\* events carries the total in its fourth place.
progress_update(value, message) ==
    <<"progress_update", value, message, ProgressTotal>>

\* valid_input_files = [f for f in input_files
\*                      if os.path.exists(f) and os.path.getsize(f) > 0]
ValidInputFiles(d, input_files) ==
    SelectSeq(input_files, LAMBDA p : Exists(d, p) /\ d[p] > 0)

\* _combine_wav_files(input_files, output_file).  fault is the environment's
\* choice: 0 = an error before the output file is opened (wave.open of the
\* first input, or of the output, raises); k in 1..n = reading the k-th valid
\* input raises after the output was opened; n+1 = no error.  The result says
\* whether an exception left the function and what the output file holds.
combine_wav_files(d, input_files, out, fault) ==
    LET valid == ValidInputFiles(d, input_files)
        n     == Len(valid)
    IN  IF input_files = <<>> \/ valid = <<>>
        THEN [raised |-> TRUE, output |-> out]
        ELSE IF fault = 0
        THEN [raised |-> TRUE, output |-> out]
        ELSE IF fault <= n
        THEN [raised |-> TRUE,
              output |-> [exists |-> TRUE, frames |-> SubSeq(valid, 1, fault - 1)]]
        ELSE [raised |-> FALSE,
              output |-> [exists |-> TRUE, frames |-> valid]]

\* Futures that were submitted.
Submitted == {i \in AllIdx : fut[i] # "none"}

\* Futures as_completed can yield: finished or cancelled.
Completed == {i \in AllIdx : fut[i] \in {"done", "cancelled"}}

\* _synthesize_chunk calls that have started and not yet returned.
InFlight ==
    {i \in AllIdx : fut[i] \in {"started", "request", "stream", "closed", "returning"}}

\* Mutant of FutureResult: the call returns its path whatever happened.
FutureResultAlwaysPath(i) == <<TempPath(i + 1)>>

\* future.result(): the path on success, None (here the empty sequence)
\* otherwise.
FutureResult(i) == IF ret[i] = "Success" THEN <<TempPath(i + 1)>> ELSE <<>>

\* ------------------------------------------------- text and the chunker
\* A text is a sequence of characters.  The characters the chunker tells
\* apart: a letter, the period, the space, the line feed and the carriage
\* return.
Alphabet == {"a", ".", " ", "\n", "\r"}

\* Every text of at most n characters.
Texts(n) == UNION {[1 .. k -> Alphabet] : k \in 0 .. n}

\* The characters str.strip() removes.
Whitespace == {" ", "\t", "\n", "\r"}

\* s.replace(old, new) for a one-character old; new is a text.
RECURSIVE replace(_, _, _)
replace(s, old, new) ==
    IF s = <<>> THEN <<>>
    ELSE (IF Head(s) = old THEN new ELSE <<Head(s)>>)
         \o replace(Tail(s), old, new)

\* processed_text = text_to_speak.replace('\n', ' ').replace('\r', '')
processed_text(text_to_speak) ==
    replace(replace(text_to_speak, "\n", <<" ">>), "\r", <<>>)

\* The delimiter '. ' starts at position p of s.
DelimAt(s, p) == p + 1 <= Len(s) /\ s[p] = "." /\ s[p + 1] = " "

\* s.split('. '): the text before the leftmost delimiter, then the split of
\* the text after it; a text without delimiter is its own only piece.
RECURSIVE split(_)
split(s) ==
    IF \E p \in 1 .. Len(s) : DelimAt(s, p)
    THEN LET p == CHOOSE q \in 1 .. Len(s) :
                      DelimAt(s, q) /\ \A r \in 1 .. (q - 1) : ~DelimAt(s, r)
         IN  <<SubSeq(s, 1, p - 1)>> \o split(SubSeq(s, p + 2, Len(s)))
    ELSE <<s>>

\* s.lstrip()
RECURSIVE lstrip(_)
lstrip(s) ==
    IF s # <<>> /\ Head(s) \in Whitespace THEN lstrip(Tail(s)) ELSE s

\* s.rstrip()
RECURSIVE rstrip(_)
rstrip(s) ==
    IF s # <<>> /\ s[Len(s)] \in Whitespace
    THEN rstrip(SubSeq(s, 1, Len(s) - 1))
    ELSE s

\* Mutant of strip: the text as it is.
strip_nothing(s) == s

\* s.strip()
strip(s) == rstrip(lstrip(s))

\* Mutant of chunk_text: the period goes on every chunk.
chunk_text_period_always(trimmed_chunk, i, n) == Append(trimmed_chunk, ".")

\* trimmed_chunk + "." if i < len(potential_chunks) - 1 else trimmed_chunk
chunk_text(trimmed_chunk, i, n) ==
    IF i < n - 1 THEN Append(trimmed_chunk, ".") ELSE trimmed_chunk

\* The loop `for i, chunk in enumerate(potential_chunks)` from index i on:
\* the chunks it appends to self.text_chunks.
RECURSIVE chunk_loop(_, _)
chunk_loop(potential_chunks, i) ==
    IF i >= Len(potential_chunks) THEN <<>>
    ELSE LET trimmed_chunk == strip(potential_chunks[i + 1])
         IN  (IF trimmed_chunk # <<>>
              THEN <<chunk_text(trimmed_chunk, i, Len(potential_chunks))>>
              ELSE <<>>)
             \o chunk_loop(potential_chunks, i + 1)

\* self.text_chunks as ChunkProcessorWorker.__init__ computes it.
TextChunker(text_to_speak) ==
    chunk_loop(split(processed_text(text_to_speak)), 0)

\* A text of n chunks: "a. a. ... a"; for n = 0 the delimiter alone, which
\* is not blank and has no chunk.
RECURSIVE TextOfChunks(_)
TextOfChunks(n) ==
    IF n = 0 THEN <<".", " ">>
    ELSE IF n = 1 THEN <<"a">>
    ELSE <<"a", ".", " ">> \o TextOfChunks(n - 1)

\* An address and an output path start_synthesis accepts.
HttpUrl == <<"h", "t", "t", "p">>
OutPath == <<"o">>

\* ---------------------------------------------------------------- initial
\* No request has reached the server.
NoRequest == [is_json |-> FALSE, body |-> "none", text |-> "none"]
NoServerEnv == [executable |-> TRUE, returncode |-> 0, stdout |-> <<>>,
                raises |-> FALSE]
NoResponse == [status |-> 0, kind |-> "none", body |-> <<>>]

ServerIdle ==
    /\ server_request = NoRequest
    /\ server_env = NoServerEnv
    /\ server_response = NoResponse

\* A worker that start_synthesis has created from a text of 0 .. MaxChunks
\* chunks, before its thread calls run().
InitCommon ==
    /\ text \in {TextOfChunks(n) : n \in 0 .. MaxChunks}
    /\ api_url = HttpUrl
    /\ output_filepath = OutPath
    /\ text_chunks = TextChunker(text)
    /\ total_chunks = Len(text_chunks)
    /\ worker_thread = "running"
    /\ workers_created = 1
    /\ finished_handled = FALSE
    /\ start_result = "started"
    /\ is_running = FALSE
    /\ stop_requested = FALSE
    /\ pc = "start"
    /\ next_i = 0
    /\ fut = [i \in AllIdx |-> "none"]
    /\ ret = [i \in AllIdx |-> "unset"]
    /\ began_stopped = {}
    /\ posted = {}
    /\ disk = [q \in {} |-> 0]
    /\ drained = {}
    /\ results = <<>>
    /\ chunks_processed = 0
    /\ temp_files = <<>>
    /\ output = [exists |-> FALSE, frames |-> <<>>]
    /\ events = <<>>
    /\ stop_called = FALSE
    /\ flag_blocks = [i \in AllIdx |-> 0]
    /\ ServerIdle

\* The environment of Spec, SpecPool, SpecChunker and SpecGui: bodies of at
\* most MaxBlocks blocks, a file system whose deletions succeed.
PlainEnv ==
    /\ max_blocks = MaxBlocks
    /\ fs_faulty = FALSE

\* The worker as __init__ leaves it.
Init == InitCommon /\ PlainEnv /\ max_workers = DefaultMaxWorkers

\* The worker with max_workers adjusted to a small pool.
InitPool == InitCommon /\ PlainEnv /\ max_workers \in 1 .. MaxPool

\* ------------------------------------------------- run(): start, submission
\* self._is_running = True
run_begin ==
    /\ pc = "start"
    /\ is_running' = TRUE
    /\ pc' = "reset"
    /\ UNCHANGED <<server_vars, env_vars, flag_blocks, gui_vars, total_chunks, max_workers, stop_requested, next_i, fut, ret,
                   began_stopped, posted, disk, drained, results, chunks_processed,
                   temp_files, output, events, stop_called>>

\* self._stop_requested = False; self.synthesis_started.emit();
\* results = {}; chunks_processed = 0; the executor is created.
run_reset ==
    /\ pc = "reset"
    /\ stop_requested' = FALSE
    /\ events' = Append(events, Ev("synthesis_started", 0, ""))
    /\ results' = <<>>
    /\ chunks_processed' = 0
    /\ next_i' = 0
    /\ pc' = "submit"
    /\ UNCHANGED <<server_vars, env_vars, flag_blocks, gui_vars, total_chunks, max_workers, is_running, fut, ret, began_stopped,
                   posted, disk, drained, temp_files, output, stop_called>>

\* Mutant of run_submit: the loop does not look at the flag.
run_submit_unchecked ==
    /\ pc = "submit"
    /\ IF next_i >= total_chunks
       THEN /\ pc' = "collect"
            /\ UNCHANGED <<fut, next_i>>
       ELSE /\ fut' = [fut EXCEPT ![next_i] = "queued"]
            /\ next_i' = next_i + 1
            /\ pc' = "submit"
    /\ UNCHANGED <<server_vars, env_vars, flag_blocks, gui_vars, total_chunks, max_workers, is_running, stop_requested, ret,
                   began_stopped, posted, disk, drained, results, chunks_processed,
                   temp_files, output, events, stop_called>>

\* One iteration of `for i, chunk in enumerate(self.text_chunks)`: break when
\* the flag is set, else executor.submit(...); or the end of the loop.
run_submit ==
    /\ pc = "submit"
    /\ IF next_i >= total_chunks \/ stop_requested
       THEN /\ pc' = "collect"
            /\ UNCHANGED <<fut, next_i>>
       ELSE /\ fut' = [fut EXCEPT ![next_i] = "queued"]
            /\ next_i' = next_i + 1
            /\ pc' = "submit"
    /\ UNCHANGED <<server_vars, env_vars, flag_blocks, gui_vars, total_chunks, max_workers, is_running, stop_requested, ret,
                   began_stopped, posted, disk, drained, results, chunks_processed,
                   temp_files, output, events, stop_called>>

\* ------------------------------------------------------- _synthesize_chunk
\* Mutant of PoolCanStart: a thread for every work item.
PoolCanStartUnbounded(i) ==
    /\ fut[i] = "queued"
    /\ \A j \in AllIdx : j < i => fut[j] # "queued"

\* A pool thread may take the next work item: the queue is first in, first
\* out, and the pool has at most max_workers threads, each running one call.
PoolCanStart(i) ==
    /\ fut[i] = "queued"
    /\ \A j \in AllIdx : j < i => fut[j] # "queued"
    /\ Cardinality(InFlight) < max_workers

\* Mutant of synthesize_chunk_begin: the first flag check is missing.
synthesize_chunk_begin_unchecked(i) ==
    /\ fut[i] = "queued"
    /\ \A j \in AllIdx : j < i => fut[j] # "queued"
    /\ Cardinality(InFlight) < max_workers
    /\ fut' = [fut EXCEPT ![i] = "started"]
    /\ began_stopped' = IF stop_requested THEN began_stopped \cup {i} ELSE began_stopped
    /\ UNCHANGED <<server_vars, env_vars, flag_blocks, gui_vars, total_chunks, max_workers, is_running, stop_requested, pc,
                   next_i, ret, posted, disk, drained, results,
                   chunks_processed, temp_files, output, events, stop_called>>

\* The call begins: `if self._stop_requested: return None`.
synthesize_chunk_begin(i) ==
    /\ PoolCanStart(i)
    /\ IF stop_requested
       THEN /\ fut' = [fut EXCEPT ![i] = "done"]
            /\ ret' = [ret EXCEPT ![i] = "Cancelled"]
       ELSE /\ fut' = [fut EXCEPT ![i] = "started"]
            /\ UNCHANGED ret
    /\ began_stopped' = IF stop_requested THEN began_stopped \cup {i} ELSE began_stopped
    /\ UNCHANGED <<server_vars, env_vars, flag_blocks, gui_vars, total_chunks, max_workers, is_running, stop_requested, pc,
                   next_i, posted, disk, drained, results, chunks_processed,
                   temp_files, output, events, stop_called>>

\* requests.post(synthesize_url, ..., stream=True, timeout=60) is called.
synthesize_chunk_post(i) ==
    /\ fut[i] = "started"
    /\ fut' = [fut EXCEPT ![i] = "request"]
    /\ posted' = posted \cup {i}
    /\ UNCHANGED <<server_vars, env_vars, flag_blocks, gui_vars, total_chunks, max_workers, is_running, stop_requested, pc,
                   next_i, ret, began_stopped, disk, drained, results,
                   chunks_processed, temp_files, output, events, stop_called>>

\* What requests.post and the code up to open() can do: a 200 answer, another
\* status, a timeout, a transport error, a transport error while the error
\* body is read, a failing open().
Outcomes ==
    {"ok", "http_error", "timeout", "net_error", "detail_error", "open_error"}

\* Mutant of Caught: the deletion of the empty file is outside every try.
CaughtRemoveUnguarded(site, flag) ==
    CASE site = "post_timeout" -> "Failed"
      [] site \in {"post_transport", "error_detail"} ->
             IF flag THEN "Cancelled" ELSE "Failed"
      [] site \in {"open", "write"} -> "Failed"
      [] site = "remove_partial" -> "Cancelled"
      [] OTHER -> "Raised"

\* The except clause an exception raised at a site of _synthesize_chunk
\* reaches, as what the call then returns: "Failed" when the clause logs an
\* ERROR and returns None, "Cancelled" when it logs a WARNING and returns
\* None, "Raised" when no clause catches it.  flag is self._stop_requested
\* as the clause reads it.
\*   except requests.exceptions.Timeout (line 243): always ERROR;
\*   except requests.exceptions.RequestException (line 247): by the flag;
\*   the inner except Exception (line 231), around open, write and the
\*   deletion of the empty file: always ERROR;
\*   except OSError (line 217), around the deletion of the partial file: an
\*   ERROR entry, then "Download stopped" and return None.
Caught(site, flag) ==
    CASE site = "post_timeout" -> "Failed"
      [] site \in {"post_transport", "error_detail"} ->
             IF flag THEN "Cancelled" ELSE "Failed"
      [] site \in {"open", "write", "remove_empty"} -> "Failed"
      [] site = "remove_partial" -> "Cancelled"
      [] OTHER -> "Raised"

\* Whether os.remove raises: the environment's choice when the file system
\* is faulty.
RemoveRaises == IF fs_faulty THEN BOOLEAN ELSE {FALSE}

\* Mutant of StreamCheckpoint: the flag is read before the first block only.
StreamCheckpointFirstOnly(n) == n = 0

\* i % 10 == 0, for the number n of blocks received before this one.
StreamCheckpoint(n) == n % CheckEvery = 0

\* Mutant of synthesize_chunk_respond: a call that got no good answer goes
\* back to send its request again.
synthesize_chunk_respond_retry(i, outcome) ==
    /\ fut[i] = "request"
    /\ IF outcome = "ok" /\ ~stop_requested
       THEN /\ fut' = [fut EXCEPT ![i] = "stream"]
            /\ disk' = Create(disk, TempPath(i + 1))
       ELSE /\ fut' = [fut EXCEPT ![i] = "started"]
            /\ UNCHANGED disk
    /\ UNCHANGED <<server_vars, env_vars, flag_blocks, gui_vars, total_chunks, max_workers, is_running, stop_requested, pc,
                   next_i, ret, began_stopped, posted, drained, results,
                   chunks_processed, temp_files, output, events, stop_called>>

\* requests.post returns or raises.  A response is followed by the second
\* flag check, the status test and open(temp_output_path, 'wb').
synthesize_chunk_respond(i, outcome) ==
    /\ fut[i] = "request"
    /\ IF outcome = "timeout"
       THEN /\ fut' = [fut EXCEPT ![i] = "done"]
            /\ ret' = [ret EXCEPT ![i] = Caught("post_timeout", stop_requested)]
            /\ UNCHANGED disk
       ELSE IF outcome = "net_error"
       THEN /\ fut' = [fut EXCEPT ![i] = "done"]
            /\ ret' = [ret EXCEPT ![i] = Caught("post_transport", stop_requested)]
            /\ UNCHANGED disk
       ELSE IF stop_requested
       THEN /\ fut' = [fut EXCEPT ![i] = "done"]
            /\ ret' = [ret EXCEPT ![i] = "Cancelled"]
            /\ UNCHANGED disk
       ELSE IF outcome = "http_error"
       THEN /\ fut' = [fut EXCEPT ![i] = "done"]
            /\ ret' = [ret EXCEPT ![i] = "Failed"]
            /\ UNCHANGED disk
       ELSE IF outcome = "detail_error"
       THEN /\ fut' = [fut EXCEPT ![i] = "done"]
            /\ ret' = [ret EXCEPT ![i] = Caught("error_detail", stop_requested)]
            /\ UNCHANGED disk
       ELSE IF outcome = "open_error"
       THEN /\ fut' = [fut EXCEPT ![i] = "done"]
            /\ ret' = [ret EXCEPT ![i] = Caught("open", stop_requested)]
            /\ UNCHANGED disk
       ELSE /\ fut' = [fut EXCEPT ![i] = "stream"]
            /\ disk' = Create(disk, TempPath(i + 1))
            /\ UNCHANGED ret
    /\ UNCHANGED <<server_vars, env_vars, flag_blocks, gui_vars, total_chunks, max_workers, is_running, stop_requested, pc,
                   next_i, began_stopped, posted, drained, results, chunks_processed,
                   temp_files, output, events, stop_called>>

\* What response.iter_content can do next.
StreamEvents == {"block", "end", "error"}

\* One turn of `for i, audio_chunk in enumerate(response.iter_content(...))`:
\* another block arrives (flag check when i % 10 == 0, then f.write), the body
\* ends, or the stream raises (caught by `except Exception`, which returns
\* None and leaves the file as it is).
synthesize_chunk_stream(i, ev) ==
    LET p == TempPath(i + 1)
    IN  /\ fut[i] = "stream"
        /\ IF ev = "block"
           THEN /\ disk[p] < max_blocks
                /\ IF StreamCheckpoint(disk[p]) /\ stop_requested
                   THEN /\ fut' = [fut EXCEPT ![i] = "closed"]
                        /\ UNCHANGED <<disk, flag_blocks>>
                   ELSE /\ disk' = WriteBlock(disk, p)
                        /\ flag_blocks' =
                               IF stop_requested
                               THEN [flag_blocks EXCEPT ![i] = @ + 1]
                               ELSE flag_blocks
                        /\ UNCHANGED fut
                /\ UNCHANGED ret
           ELSE IF ev = "end"
           THEN /\ fut' = [fut EXCEPT ![i] = "closed"]
                /\ UNCHANGED <<disk, ret, flag_blocks>>
           ELSE /\ fut' = [fut EXCEPT ![i] = "done"]
                /\ ret' = [ret EXCEPT ![i] = Caught("write", stop_requested)]
                /\ UNCHANGED <<disk, flag_blocks>>
        /\ UNCHANGED <<server_vars, env_vars, gui_vars, total_chunks, max_workers, is_running, stop_requested,
                       pc, next_i, began_stopped, posted, drained, results,
                       chunks_processed, temp_files, output, events,
                       stop_called>>

\* Mutant of FileIsValid: the size is not looked at.
FileIsValidExistsOnly(d, p) == Exists(d, p)

\* os.path.exists(temp_output_path) and os.path.getsize(temp_output_path) > 0
FileIsValid(d, p) == Exists(d, p) /\ d[p] > 0

\* After the file is closed: `if self._stop_requested:` remove the partial
\* file and return None; else the file must exist and be non-empty.
synthesize_chunk_after_stream(i) ==
    LET p == TempPath(i + 1)
    IN  /\ fut[i] = "closed"
        /\ IF stop_requested
           THEN /\ \E raises \in RemoveRaises :
                       IF Exists(disk, p) /\ raises
                       THEN /\ UNCHANGED disk
                            /\ ret' = [ret EXCEPT ![i] =
                                           Caught("remove_partial", stop_requested)]
                       ELSE /\ disk' = IF Exists(disk, p) THEN Remove(disk, p)
                                       ELSE disk
                            /\ ret' = [ret EXCEPT ![i] = "Cancelled"]
                /\ fut' = [fut EXCEPT ![i] = "done"]
           ELSE IF FileIsValid(disk, p)
           THEN /\ fut' = [fut EXCEPT ![i] = "returning"]
                /\ UNCHANGED <<disk, ret>>
           ELSE /\ \E raises \in RemoveRaises :
                       IF Exists(disk, p) /\ raises
                       THEN /\ UNCHANGED disk
                            /\ ret' = [ret EXCEPT ![i] =
                                           Caught("remove_empty", stop_requested)]
                       ELSE /\ disk' = IF Exists(disk, p) THEN Remove(disk, p)
                                       ELSE disk
                            /\ ret' = [ret EXCEPT ![i] = "Failed"]
                /\ fut' = [fut EXCEPT ![i] = "done"]
        /\ UNCHANGED <<server_vars, env_vars, flag_blocks, gui_vars, total_chunks, max_workers, is_running, stop_requested,
                       pc, next_i, began_stopped, posted, drained, results,
                       chunks_processed, temp_files, output, events,
                       stop_called>>

\* `return temp_output_path`: the future gets its result.
synthesize_chunk_return(i) ==
    /\ fut[i] = "returning"
    /\ fut' = [fut EXCEPT ![i] = "done"]
    /\ ret' = [ret EXCEPT ![i] = "Success"]
    /\ UNCHANGED <<server_vars, env_vars, flag_blocks, gui_vars, total_chunks, max_workers, is_running, stop_requested, pc,
                   next_i, began_stopped, posted, disk, drained, results,
                   chunks_processed, temp_files, output, events, stop_called>>

\* ------------------------------------------ run(): the as_completed loop
\* executor.shutdown(wait=False, cancel_futures=True): every work item still
\* in the queue has its future cancelled.
CancelPending(f) ==
    [i \in AllIdx |-> IF f[i] = "queued" THEN "cancelled" ELSE f[i]]

\* Mutant of run_collect: a failed chunk is reported, but the flag is not set
\* and the loop goes on.
run_collect_no_break(f) ==
    /\ pc = "collect"
    /\ f \in (Submitted \cap Completed) \ drained
    /\ drained' = drained \cup {f}
    /\ IF stop_requested \/ fut[f] = "cancelled"
       THEN UNCHANGED <<results, chunks_processed, events>>
       ELSE IF ret[f] = "Success"
       THEN /\ results' = DictPut(results, f, TempPath(f + 1))
            /\ chunks_processed' = chunks_processed + 1
            /\ events' = Append(events,
                   progress_update(chunks_processed + 1, "collect"))
       ELSE /\ events' = Append(events, Ev("critical_error", f + 1, "chunk"))
            /\ UNCHANGED <<results, chunks_processed>>
    /\ UNCHANGED <<server_vars, env_vars, flag_blocks, gui_vars, total_chunks, max_workers, is_running, stop_requested, pc,
                   next_i, fut, ret, began_stopped, posted, disk, temp_files,
                   output, stop_called>>

\* One iteration of `for future in concurrent.futures.as_completed(...)` on
\* a completed future that was not yielded before.
run_collect(f) ==
    /\ pc = "collect"
    /\ f \in (Submitted \cap Completed) \ drained
    /\ drained' = drained \cup {f}
    /\ IF stop_requested
       THEN \* continue
            UNCHANGED <<results, chunks_processed, events, stop_requested, fut, pc>>
       ELSE IF fut[f] = "cancelled"
       THEN \* except concurrent.futures.CancelledError: a log entry only
            UNCHANGED <<results, chunks_processed, events, stop_requested, fut, pc>>
       ELSE IF ret[f] = "Raised"
       THEN \* except Exception as exc (the flag is not set here)
            /\ events' = Append(events, Ev("critical_error", f + 1, "exception"))
            /\ stop_requested' = TRUE
            /\ fut' = CancelPending(fut)
            /\ pc' = "join"
            /\ UNCHANGED <<results, chunks_processed>>
       ELSE IF FutureResult(f) # <<>>
       THEN /\ results' = DictPut(results, f, FutureResult(f)[1])
            /\ chunks_processed' = chunks_processed + 1
            /\ events' = Append(events,
                   progress_update(chunks_processed + 1, "collect"))
            /\ UNCHANGED <<stop_requested, fut, pc>>
       ELSE /\ events' = Append(events, Ev("critical_error", f + 1, "chunk"))
            /\ stop_requested' = TRUE
            /\ fut' = CancelPending(fut)
            /\ pc' = "join"
            /\ UNCHANGED <<results, chunks_processed>>
    /\ UNCHANGED <<server_vars, env_vars, flag_blocks, gui_vars, total_chunks, max_workers, is_running, next_i, ret, began_stopped,
                   posted, disk, temp_files, output, stop_called>>

\* Mutant of run_collect_end: the loop waits for a completion of every chunk,
\* submitted or not.
run_collect_end_waits_all ==
    /\ pc = "collect"
    /\ (0 .. (total_chunks - 1)) \subseteq drained
    /\ pc' = "join"
    /\ UNCHANGED <<server_vars, env_vars, flag_blocks, gui_vars, total_chunks,
                   max_workers, is_running, stop_requested, next_i, fut, ret,
                   began_stopped, posted, disk, drained, results, chunks_processed,
                   temp_files, output, events, stop_called>>

\* as_completed has yielded every submitted future: the loop ends.
run_collect_end ==
    /\ pc = "collect"
    /\ Submitted \subseteq drained
    /\ pc' = "join"
    /\ UNCHANGED <<server_vars, env_vars, flag_blocks, gui_vars, total_chunks, max_workers, is_running, stop_requested,
                   next_i, fut, ret, began_stopped, posted, disk, drained, results,
                   chunks_processed, temp_files, output, events, stop_called>>

\* The end of the `with ThreadPoolExecutor(...)` block: shutdown(wait=True)
\* returns when no call is running any more.
run_executor_exit ==
    /\ pc = "join"
    /\ InFlight = {}
    /\ \A i \in AllIdx : fut[i] # "queued"
    /\ pc' = "post"
    /\ UNCHANGED <<server_vars, env_vars, flag_blocks, gui_vars, total_chunks, max_workers, is_running, stop_requested,
                   next_i, fut, ret, began_stopped, posted, disk, drained, results,
                   chunks_processed, temp_files, output, events, stop_called>>

\* ------------------------------------------------ run(): post-processing
\* Mutant of AbortCheck: the flag is not looked at.
AbortCheckCountOnly == Len(results) < total_chunks

\* if self._stop_requested or len(results) < total_chunks
AbortCheck == stop_requested \/ Len(results) < total_chunks

\* Mutant of CleanupAndFinish: the finished signal goes out twice.
FinishTwice(d, evs, files) ==
    [disk   |-> cleanup_temp_files(d, files),
     events |-> evs \o <<Ev("cleanup", Len(files), ""),
                         Ev("synthesis_finished", 0, ""),
                         Ev("synthesis_finished", 0, "")>>]

\* Mutant of CleanupAndFinish: an exit that forgets the cleanup.
FinishWithoutCleanup(d, evs, files) ==
    [disk   |-> d,
     events |-> Append(evs, Ev("synthesis_finished", 0, ""))]

\* _cleanup_temp_files(files); self._is_running = False;
\* self.synthesis_finished.emit(): the disk and the events afterwards.
CleanupAndFinish(d, evs, files) ==
    [disk   |-> cleanup_temp_files(d, files),
     events |-> evs \o <<Ev("cleanup", Len(files), ""),
                         Ev("synthesis_finished", 0, "")>>]

\* created_temp_files = list(results.values()); the abort test; on success
\* self.temp_files is put in index order and the last progress step is
\* emitted.
run_post_check ==
    /\ pc = "post"
    /\ IF AbortCheck
       THEN /\ pc' = "abort"
            /\ UNCHANGED <<temp_files, events>>
       ELSE /\ temp_files' = OrderedTempFiles(results)
            /\ events' = Append(events,
                   progress_update(total_chunks + 1, "combine"))
            /\ pc' = "mkdir"
    /\ UNCHANGED <<server_vars, env_vars, flag_blocks, gui_vars, total_chunks, max_workers, is_running, stop_requested,
                   next_i, fut, ret, began_stopped, posted, disk, drained, results,
                   chunks_processed, output, stop_called>>

\* The abort branch: cleanup of created_temp_files, then the run ends.
run_abort ==
    /\ pc = "abort"
    /\ LET e == CleanupAndFinish(disk, events, DictValues(results))
       IN  /\ disk' = e.disk
           /\ events' = e.events
    /\ is_running' = FALSE
    /\ pc' = "done"
    /\ UNCHANGED <<server_vars, env_vars, flag_blocks, gui_vars, total_chunks, max_workers, stop_requested, next_i, fut, ret,
                   began_stopped, posted, drained, results, chunks_processed,
                   temp_files, output, stop_called>>

\* What the output directory can be.
DirOutcomes == {"present", "created", "error"}

\* `if output_dir and not os.path.exists(output_dir): os.makedirs(...)`;
\* a failing makedirs ends the run after a critical_error and the cleanup.
run_makedirs(dir) ==
    /\ pc = "mkdir"
    /\ IF dir = "error"
       THEN /\ LET e == CleanupAndFinish(disk,
                            Append(events, Ev("critical_error", 0, "makedirs")),
                            temp_files)
               IN  /\ disk' = e.disk
                   /\ events' = e.events
            /\ is_running' = FALSE
            /\ pc' = "done"
       ELSE /\ pc' = "combine"
            /\ UNCHANGED <<disk, events, is_running>>
    /\ UNCHANGED <<server_vars, env_vars, flag_blocks, gui_vars, total_chunks, max_workers, stop_requested, next_i, fut, ret,
                   began_stopped, posted, drained, results, chunks_processed,
                   temp_files, output, stop_called>>

\* try: self._combine_wav_files(...); self.final_output_ready.emit(...)
\* except Exception: self.critical_error.emit(...)
run_combine(fault) ==
    /\ pc = "combine"
    /\ LET r == combine_wav_files(disk, temp_files, output, fault)
       IN  /\ output' = r.output
           /\ events' = events \o
                  <<Ev("combine", Len(temp_files),
                       IF r.raised THEN "raised" ELSE "returned"),
                    IF r.raised THEN Ev("critical_error", 0, "combine")
                                ELSE Ev("final_output_ready", 0, "")>>
    /\ pc' = "finally"
    /\ UNCHANGED <<server_vars, env_vars, flag_blocks, gui_vars, total_chunks, max_workers, is_running, stop_requested,
                   next_i, fut, ret, began_stopped, posted, disk, drained, results,
                   chunks_processed, temp_files, stop_called>>

\* finally: the cleanup of self.temp_files, then the run ends.
run_finally ==
    /\ pc = "finally"
    /\ LET e == CleanupAndFinish(disk, events, temp_files)
       IN  /\ disk' = e.disk
           /\ events' = e.events
    /\ is_running' = FALSE
    /\ pc' = "done"
    /\ UNCHANGED <<server_vars, env_vars, flag_blocks, gui_vars, total_chunks, max_workers, stop_requested, next_i, fut, ret,
                   began_stopped, posted, drained, results, chunks_processed,
                   temp_files, output, stop_called>>

\* ------------------------------------------------------------------ stop()
\* if self._is_running: self._stop_requested = True
stop ==
    /\ is_running
    /\ stop_requested' = TRUE
    /\ stop_called' = TRUE
    /\ UNCHANGED <<server_vars, env_vars, flag_blocks, gui_vars, total_chunks, max_workers, is_running, pc, next_i, fut, ret,
                   began_stopped, posted, disk, drained, results, chunks_processed,
                   temp_files, output, events>>

\* ------------------------------------ the window: start_synthesis and after
\* The window as PiperAPIGUIWindow.__init__ leaves it: self.worker_thread =
\* None, self.worker = None; no worker exists (pc = "none") and the worker's
\* variables hold the values a fresh worker would have.
InitNoWorker ==
    /\ pc = "none"
    /\ worker_thread = "None"
    /\ workers_created = 0
    /\ finished_handled = FALSE
    /\ start_result = "none"
    /\ max_blocks = MaxBlocks
    /\ fs_faulty = FALSE
    /\ flag_blocks = [i \in AllIdx |-> 0]
    /\ ServerIdle
    /\ text_chunks = <<>>
    /\ total_chunks = 0
    /\ max_workers = DefaultMaxWorkers
    /\ is_running = FALSE
    /\ stop_requested = FALSE
    /\ next_i = 0
    /\ fut = [i \in AllIdx |-> "none"]
    /\ ret = [i \in AllIdx |-> "unset"]
    /\ began_stopped = {}
    /\ posted = {}
    /\ disk = [q \in {} |-> 0]
    /\ drained = {}
    /\ results = <<>>
    /\ chunks_processed = 0
    /\ temp_files = <<>>
    /\ output = [exists |-> FALSE, frames |-> <<>>]
    /\ events = <<>>
    /\ stop_called = FALSE

\* ChunkProcessorWorker(api_url, text_to_speak, output_filepath): the chunk
\* list and the fields of the new object; the run-local variables and the
\* record of signals start afresh with it.  The files on disk stay.
worker_init(text_to_speak) ==
    /\ text_chunks' = TextChunker(text_to_speak)
    /\ total_chunks' = Len(TextChunker(text_to_speak))
    /\ is_running' = FALSE
    /\ stop_requested' = FALSE
    /\ temp_files' = <<>>
    /\ max_workers' = DefaultMaxWorkers
    /\ next_i' = 0
    /\ fut' = [i \in AllIdx |-> "none"]
    /\ ret' = [i \in AllIdx |-> "unset"]
    /\ began_stopped' = {}
    /\ posted' = {}
    /\ drained' = {}
    /\ results' = <<>>
    /\ chunks_processed' = 0
    /\ events' = <<>>
    /\ stop_called' = FALSE
    /\ workers_created' = workers_created + 1
    /\ flag_blocks' = [i \in AllIdx |-> 0]
    /\ UNCHANGED <<disk, output, env_vars, server_vars>>

\* The constructor called on the text, outside the window.
construct_worker ==
    /\ pc = "none"
    /\ worker_init(text)
    /\ pc' = "start"
    /\ UNCHANGED <<text, api_url, output_filepath, worker_thread,
                   finished_handled, start_result>>

\* s.startswith(prefix)
startswith(s, prefix) ==
    Len(s) >= Len(prefix) /\ SubSeq(s, 1, Len(prefix)) = prefix

\* Mutant of AlreadyRunning: the test is left out.
AlreadyRunningNever == FALSE

\* self.worker_thread is not None and self.worker_thread.isRunning()
AlreadyRunning == worker_thread # "None" /\ worker_thread = "running"

\* Mutant of Validation: the text is not looked at.
ValidationNoText(t, u, o) ==
    IF ~startswith(strip(u), HttpUrl) THEN "invalid_url"
    ELSE IF strip(o) = <<>> THEN "no_output"
    ELSE "ok"

\* The three tests of start_synthesis, in their order, on the text, the
\* address and the output path: the first that fails, or "ok".
Validation(t, u, o) ==
    IF ~startswith(strip(u), HttpUrl) THEN "invalid_url"
    ELSE IF strip(t) = <<>> THEN "no_text"
    ELSE IF strip(o) = <<>> THEN "no_output"
    ELSE "ok"

\* start_synthesis(): rejected while the thread is running, rejected on an
\* input error, else a worker and a QThread are created and the thread is
\* started (its started signal calls worker.run).
start_synthesis ==
    IF AlreadyRunning
    THEN /\ start_result' = "already_running"
         /\ UNCHANGED <<total_chunks, max_workers, is_running, stop_requested,
                        pc, next_i, fut, ret, began_stopped, posted, disk, drained,
                        results, chunks_processed, temp_files, output, events,
                        stop_called, text, api_url, output_filepath, text_chunks,
                        env_vars, flag_blocks, server_vars,
                        worker_thread, workers_created, finished_handled>>
    ELSE IF Validation(text, api_url, output_filepath) # "ok"
    THEN /\ start_result' = Validation(text, api_url, output_filepath)
         /\ UNCHANGED <<total_chunks, max_workers, is_running, stop_requested,
                        pc, next_i, fut, ret, began_stopped, posted, disk, drained,
                        results, chunks_processed, temp_files, output, events,
                        stop_called, text, api_url, output_filepath, text_chunks,
                        env_vars, flag_blocks, server_vars,
                        worker_thread, workers_created, finished_handled>>
    ELSE /\ worker_init(text)
         /\ pc' = "start"
         /\ worker_thread' = "running"
         /\ finished_handled' = FALSE
         /\ start_result' = "started"
         /\ UNCHANGED <<text, api_url, output_filepath>>

\* stop_synthesis(): worker.stop() when there is a worker whose thread is
\* running.
stop_synthesis ==
    /\ worker_thread # "None"
    /\ worker_thread = "running"
    /\ stop

\* on_synthesis_finished(), the slot of the worker's synthesis_finished
\* signal: the references are dropped only when the thread is not running.
\* Nothing in the program ends the thread's event loop, so a started thread
\* stays "running".
on_synthesis_finished ==
    /\ \E k \in DOMAIN events : events[k][1] = "synthesis_finished"
    /\ ~finished_handled
    /\ finished_handled' = TRUE
    /\ worker_thread' =
           IF worker_thread # "None" /\ worker_thread # "running"
           THEN "None" ELSE worker_thread
    /\ UNCHANGED <<total_chunks, max_workers, is_running, stop_requested, pc,
                   next_i, fut, ret, began_stopped, posted, disk, drained, results,
                   chunks_processed, temp_files, output, events, stop_called,
                   text, api_url, output_filepath, text_chunks, workers_created,
                   env_vars, flag_blocks, server_vars,
                   start_result>>

\* ------------------------------------------------------------ specification
Next ==
    \/ run_begin
    \/ run_reset
    \/ run_submit
    \/ \E i \in AllIdx : synthesize_chunk_begin(i)
    \/ \E i \in AllIdx : synthesize_chunk_post(i)
    \/ \E i \in AllIdx, outcome \in Outcomes : synthesize_chunk_respond(i, outcome)
    \/ \E i \in AllIdx, ev \in StreamEvents : synthesize_chunk_stream(i, ev)
    \/ \E i \in AllIdx : synthesize_chunk_after_stream(i)
    \/ \E i \in AllIdx : synthesize_chunk_return(i)
    \/ \E f \in AllIdx : run_collect(f)
    \/ run_collect_end
    \/ run_executor_exit
    \/ run_post_check
    \/ run_abort
    \/ \E dir \in DirOutcomes : run_makedirs(dir)
    \/ \E fault \in 0 .. (MaxChunks + 1) : run_combine(fault)
    \/ run_finally
    \/ stop

\* One run of the worker as constructed (max_workers = 12).
Spec == Init /\ [][Next]_vars

\* One run with a small pool, so that more chunks than threads exist.
SpecPool == InitPool /\ [][Next]_vars

\* The steps of the thread that executes run().
RunThread ==
    \/ run_begin
    \/ run_reset
    \/ run_submit
    \/ \E f \in AllIdx : run_collect(f)
    \/ run_collect_end
    \/ run_executor_exit
    \/ run_post_check
    \/ run_abort
    \/ \E dir \in DirOutcomes : run_makedirs(dir)
    \/ \E fault \in 0 .. (MaxChunks + 1) : run_combine(fault)
    \/ run_finally

\* The steps of the call _synthesize_chunk for chunk index i.
Fetcher(i) ==
    \/ synthesize_chunk_begin(i)
    \/ synthesize_chunk_post(i)
    \/ \E outcome \in Outcomes : synthesize_chunk_respond(i, outcome)
    \/ \E ev \in StreamEvents : synthesize_chunk_stream(i, ev)
    \/ synthesize_chunk_after_stream(i)
    \/ synthesize_chunk_return(i)

\* The thread of run() and every pool thread with work keeps being
\* scheduled, and every network call returns, raises or delivers the next
\* part of a finite body.  Nothing is assumed about stop().
Fairness ==
    /\ WF_vars(RunThread)
    /\ \A i \in AllIdx : WF_vars(Fetcher(i))

\* One run under fair scheduling.
SpecLive == Init /\ [][Next]_vars /\ Fairness

\* One run of one chunk whose response body may be long.
InitFetch ==
    /\ InitCommon
    /\ total_chunks = 1
    /\ max_blocks = MaxStreamBlocks
    /\ fs_faulty = FALSE
    /\ max_workers = DefaultMaxWorkers

SpecFetch == InitFetch /\ [][Next]_vars

\* One run on a file system whose deletions may fail.
InitFaulty ==
    /\ InitCommon
    /\ total_chunks <= MaxFaultyChunks
    /\ max_blocks = MaxBlocks
    /\ fs_faulty = TRUE
    /\ max_workers = DefaultMaxWorkers

SpecFaulty == InitFaulty /\ [][Next]_vars

\* The chunker on every text of at most MaxTextLen characters.
InitChunker ==
    /\ InitNoWorker
    /\ text \in Texts(MaxTextLen)
    /\ api_url = HttpUrl
    /\ output_filepath = OutPath

NextChunker == construct_worker

SpecChunker == InitChunker /\ [][NextChunker]_vars

\* What the window's fields may hold when start_synthesis is called: blank
\* texts and texts of 0 .. MaxGuiChunks chunks; an address with the prefix,
\* one with the prefix after blanks, one without; a path and a blank path.
GuiTexts == {<<>>, <<" ", "\n">>} \cup {TextOfChunks(n) : n \in 0 .. MaxGuiChunks}
GuiUrls == {HttpUrl, <<" ">> \o HttpUrl, <<"f", "t", "p">>}
GuiOutPaths == {OutPath, <<" ">>}

InitGui ==
    /\ InitNoWorker
    /\ text \in GuiTexts
    /\ api_url \in GuiUrls
    /\ output_filepath \in GuiOutPaths

NextGui ==
    \/ start_synthesis
    \/ stop_synthesis
    \/ on_synthesis_finished
    \/ run_begin
    \/ run_reset
    \/ run_submit
    \/ \E i \in AllIdx : synthesize_chunk_begin(i)
    \/ \E i \in AllIdx : synthesize_chunk_post(i)
    \/ \E i \in AllIdx, outcome \in Outcomes : synthesize_chunk_respond(i, outcome)
    \/ \E i \in AllIdx, ev \in StreamEvents : synthesize_chunk_stream(i, ev)
    \/ \E i \in AllIdx : synthesize_chunk_after_stream(i)
    \/ \E i \in AllIdx : synthesize_chunk_return(i)
    \/ \E f \in AllIdx : run_collect(f)
    \/ run_collect_end
    \/ run_executor_exit
    \/ run_post_check
    \/ run_abort
    \/ \E dir \in DirOutcomes : run_makedirs(dir)
    \/ \E fault \in 0 .. (MaxChunks + 1) : run_combine(fault)
    \/ run_finally

\* The window from its construction on: start requests, stop requests and
\* the runs they start.
SpecGui == InitGui /\ [][NextGui]_vars

\* ------------------------------------------------ vocabulary of the claims
\* The chunk indices of this run.
Chunks == 0 .. (total_chunks - 1)

\* Positions of events that carry the given name.
Occurrences(name) == {k \in DOMAIN events : events[k][1] = name}

\* The signal was emitted (or the helper called) in this run.
Emitted(name) == Occurrences(name) # {}

\* run() has returned.
Terminated == pc = "done"

\* Every chunk's fetch returned its path.
AllFetchesSucceeded == \A i \in Chunks : ret[i] = "Success"

\* Some chunk's fetch returned a failure.
SomeFetchFailed == \E i \in Chunks : ret[i] = "Failed"

\* The temporary paths of chunks 0..N-1 in ascending chunk index.
AscendingPaths == [k \in 1 .. total_chunks |-> TempPath(k)]

\* s is an initial part of t.
IsPrefix(s, t) == Len(s) <= Len(t) /\ SubSeq(t, 1, Len(s)) = s

\* No temporary file is on disk.
NoTempFiles == DOMAIN disk = {}

\* ------------------------------------------------------------------ claims
\* C1: when all N fetches succeeded and no stop was requested, the stitcher
\* is called with the N paths in ascending chunk index, whatever the order in
\* which the fetches completed and were drained, and what it has appended to
\* the output is an initial part of that sequence, all of it when it returned.
C1_StitchInIndexOrder ==
    (AllFetchesSucceeded /\ ~stop_called /\ Emitted("combine")) =>
        /\ temp_files = AscendingPaths
        /\ IsPrefix(output.frames, AscendingPaths)
        /\ (Emitted("final_output_ready") => output.frames = AscendingPaths)

\* C1 witness: three chunks were drained out of index order and the run
\* completed with its output.
C1_Witness ==
    /\ total_chunks >= 3
    /\ AllFetchesSucceeded /\ ~stop_called
    /\ Emitted("final_output_ready")
    /\ Len(results) >= 3
    /\ results[1][1] > results[2][1]
    /\ results[2][1] < results[3][1]

\* C2: in a run without a caller stop in which some fetch returned a failure,
\* the stitcher is never called, no output file is written,
\* final_output_ready is never emitted, and the run ends on the abort branch
\* with the flag set by the collector.
C2_FailureAborts ==
    (SomeFetchFailed /\ ~stop_called) =>
        /\ ~Emitted("combine")
        /\ ~Emitted("final_output_ready")
        /\ ~output.exists
        /\ pc \notin {"mkdir", "combine", "finally"}
        /\ (Terminated => stop_requested /\ Len(results) < total_chunks)

\* C2 witness: an aborted run of three chunks in which the two other chunks
\* succeeded, one of them drained before the failure.
C2_Witness ==
    /\ Terminated /\ ~stop_called
    /\ total_chunks >= 3
    /\ Cardinality({i \in Chunks : ret[i] = "Failed"}) = 1
    /\ Cardinality({i \in Chunks : ret[i] = "Success"}) = 2
    /\ Len(results) = 1

\* C3 (as claimed): after a run without a caller stop in which some fetch
\* failed has terminated, no temporary file remains.
C3_NoTempFilesAfterFailure ==
    (Terminated /\ SomeFetchFailed /\ ~stop_called) => NoTempFiles

\* The case of C3 named in the claim: the artifact of a fetch that returned
\* its path is gone after a run aborted by another chunk's failure.
C3_Case_SuccessfulArtifactsRemoved ==
    (Terminated /\ SomeFetchFailed /\ ~stop_called) =>
        \A i \in Chunks : ret[i] = "Success" => ~Exists(disk, TempPath(i + 1))

\* C4 (as claimed): once the caller's stop() has taken effect, the stitcher is
\* not called, final_output_ready is not emitted and the output is not
\* written from then on.
C4_StopEndsCancelled ==
    [][stop_called =>
          /\ Occurrences("combine")' = Occurrences("combine")
          /\ Occurrences("final_output_ready")' = Occurrences("final_output_ready")
          /\ output' = output]_vars

\* C5 (as claimed): after a run in which the caller requested cancellation
\* has terminated, no temporary file remains.
C5_NoTempFilesAfterCancel ==
    (Terminated /\ stop_called) => NoTempFiles

\* The case of C5 named in the claim: no fetch failed, the stop took effect
\* while results were outstanding, and no temporary file remains.
C5_Case_NoFailure ==
    (Terminated /\ stop_called /\ ~SomeFetchFailed) => NoTempFiles

\* C6: a call of _synthesize_chunk that begins while the flag is set returns
\* Cancelled and never makes the network call; so every network call, also
\* one made or still open after the flag was set, belongs to a call that
\* found the flag unset at its first check.
C6_NoRequestOnceStopped ==
    \A i \in began_stopped :
        /\ i \notin posted
        /\ fut[i] = "done"
        /\ ret[i] = "Cancelled"

\* C6 witness: one call began under the flag while the request of another,
\* which had passed its first check, is still open.
C6_Witness ==
    /\ stop_requested
    /\ began_stopped # {}
    /\ \E j \in Chunks : fut[j] = "request" /\ j \in posted

\* C7: the number of _synthesize_chunk calls in flight never exceeds
\* max_workers, also with more chunks than pool threads.
C7_InFlightBounded == Cardinality(InFlight) <= max_workers

\* C7 witness: the pool is full while another chunk waits in the queue.
C7_Witness ==
    /\ Cardinality(InFlight) = max_workers
    /\ \E i \in Chunks : fut[i] = "queued"
    /\ total_chunks > max_workers

\* C8: the stitcher is called only when every chunk index is recorded with
\* its successful result; the step that takes run() into the stitching part
\* is taken only with the flag unset and all N results recorded; and
\* final_output_ready is emitted only after the stitcher returned without an
\* error.
C8_StateInv ==
    /\ (pc \in {"mkdir", "combine", "finally"} \/ Emitted("combine")) =>
           /\ DictKeys(results) = Chunks
           /\ Len(results) = total_chunks
           /\ AllFetchesSucceeded
    /\ Emitted("final_output_ready") =>
           /\ \E k \in Occurrences("combine") : events[k][3] = "returned"
           /\ \A k \in Occurrences("critical_error") : events[k][3] # "combine"

C8_OnlyFullSuccessStitches ==
    /\ []C8_StateInv
    /\ [][(pc = "post" /\ pc' = "mkdir") =>
              (~stop_requested /\ Len(results) = total_chunks)]_vars

\* C8 witness: a completed run of three chunks.
C8_Witness ==
    /\ Terminated /\ total_chunks >= 3
    /\ Emitted("final_output_ready")

\* C9: critical_error is emitted at most once in any run, and exactly once in
\* a terminated run without a caller stop in which a fetch failed.
C9_OneCriticalError ==
    /\ Cardinality(Occurrences("critical_error")) <= 1
    /\ (Terminated /\ SomeFetchFailed /\ ~stop_called) =>
           Cardinality(Occurrences("critical_error")) = 1

\* C9 witness: a terminated run in which two fetches failed.
C9_Witness ==
    /\ Terminated /\ ~stop_called
    /\ Cardinality({i \in Chunks : ret[i] = "Failed"}) >= 2
    /\ Cardinality(Occurrences("critical_error")) = 1

\* C10: run() always ends by emitting synthesis_finished, and each
\* synthesis_finished is preceded by a call of the cleanup step.
C10_CleanupBeforeFinished ==
    /\ Terminated => Emitted("synthesis_finished")
    /\ \A k \in Occurrences("synthesis_finished") :
           \E j \in Occurrences("cleanup") : j < k

\* C10 witness: the run ended after a stitching failure, with the temporary
\* files removed.
C10_Witness ==
    /\ Terminated /\ total_chunks >= 2
    /\ \E k \in Occurrences("critical_error") : events[k][3] = "combine"
    /\ NoTempFiles

\* ------------------------------------------------- vocabulary about texts
\* A worker object exists.
WorkerExists == pc # "none"

\* The text has a character that is not whitespace.
HasNonWhitespace(s) == \E k \in DOMAIN s : s[k] \notin Whitespace

\* Positions where a period is followed by a space.  Two of them never
\* overlap, so every one is a place where the text is cut.
DelimiterPositions(s) ==
    {p \in 1 .. (Len(s) - 1) : s[p] = "." /\ s[p + 1] = " "}

\* The text without its leading and trailing whitespace.
Trimmed(s) ==
    LET idx == {k \in DOMAIN s : s[k] \notin Whitespace}
    IN  IF idx = {} THEN <<>>
        ELSE SubSeq(s, CHOOSE k \in idx : \A m \in idx : k <= m,
                       CHOOSE k \in idx : \A m \in idx : k >= m)

\* The text with every carriage return deleted and every line feed turned
\* into a space.
Normalised(s) ==
    LET kept == SelectSeq(s, LAMBDA c : c # "\r")
    IN  [k \in DOMAIN kept |-> IF kept[k] = "\n" THEN " " ELSE kept[k]]

\* The pieces between the delimiters of s, in order: one more than there
\* are delimiters.
Fragments(s) ==
    LET cuts == sorted(DelimiterPositions(s))
        n    == Len(cuts)
    IN  [k \in 1 .. (n + 1) |->
            SubSeq(s, IF k = 1 THEN 1 ELSE cuts[k - 1] + 2,
                      IF k = n + 1 THEN Len(s) ELSE cuts[k] - 1)]

\* The chunks the description asks for: of the fragments that are not blank,
\* in order, the trimmed text, with a period unless the fragment is the last
\* of all fragments.
ExpectedChunks(s) ==
    LET fr   == Fragments(s)
        keep == SelectSeq([k \in DOMAIN fr |-> k],
                          LAMBDA k : Trimmed(fr[k]) # <<>>)
    IN  [j \in DOMAIN keep |->
            IF keep[j] < Len(fr)
            THEN Trimmed(fr[keep[j]]) \o <<".">>
            ELSE Trimmed(fr[keep[j]])]

\* ----------------------------------------------------------------- C11
\* C11 (as stated): for every text with a non-whitespace character and
\* without the delimiter period-space, the chunker returns exactly one chunk,
\* equal to the trimmed input text.
C11_OneChunkEqualsTrimmedInput ==
    (WorkerExists /\ HasNonWhitespace(text) /\ DelimiterPositions(text) = {})
        => text_chunks = <<Trimmed(text)>>

\* C11 (amended): for every text whose normalised form (carriage returns
\* deleted, line feeds turned into spaces) has a non-whitespace character
\* and no delimiter period-space, the chunker returns exactly one chunk,
\* equal to the trimmed normalised text.
C11_OneChunkEqualsTrimmedNormalised ==
    (WorkerExists /\ HasNonWhitespace(Normalised(text))
                  /\ DelimiterPositions(Normalised(text)) = {})
        => text_chunks = <<Trimmed(Normalised(text))>>

\* A text with a line feed inside and blanks around it was chunked into one
\* chunk.
C11_Witness ==
    /\ WorkerExists
    /\ text = <<" ", "a", "\n", "a">>
    /\ text_chunks = << <<"a", " ", "a">> >>

\* ----------------------------------------------------------------- C12
\* C12: when the text is empty or only whitespace (the chunker then yields
\* no chunk), when the trimmed address does not start with "http", or when
\* the output path is blank, start_synthesis creates no worker and nothing is
\* submitted or requested.
C12_NoJobOnInvalidInput ==
    /\ (\/ ~HasNonWhitespace(text)
        \/ ~startswith(Trimmed(api_url), <<"h", "t", "t", "p">>)
        \/ ~HasNonWhitespace(output_filepath))
           => /\ ~WorkerExists
              /\ workers_created = 0
              /\ Submitted = {}
              /\ posted = {}
    /\ ~HasNonWhitespace(text) => TextChunker(text) = <<>>

\* start_synthesis was called on a text that holds only whitespace, with a
\* good address and path, and turned it down.
C12_Witness ==
    /\ text = <<" ", "\n">>
    /\ start_result = "no_text"
    /\ ~WorkerExists

\* ----------------------------------------------------------------- C13
\* C13: for every input text the chunk list is exactly, in order, the
\* non-blank trimmed fragments of the normalised text split at period-space,
\* with a period appended if and only if the fragment is not the last of the
\* split sequence; no chunk is empty.
C13_ChunksAreTrimmedFragments ==
    WorkerExists =>
        /\ text_chunks = ExpectedChunks(Normalised(text))
        /\ \A k \in DOMAIN text_chunks : text_chunks[k] # <<>>

\* A text of two fragments: the first chunk got its period, the last did not.
C13_Witness ==
    /\ WorkerExists
    /\ text = <<"a", ".", " ", "a">>
    /\ text_chunks = << <<"a", ".">>, <<"a">> >>

\* ----------------------------------------------------------------- C14
\* C14: once the flag is set during the submission loop no further chunk is
\* submitted: a chunk is submitted only by the loop and only when the flag is
\* not set at its check, and a flag set during the loop stays set.
C14_NoSubmitOnceFlagSet ==
    [][/\ \A i \in AllIdx :
              (fut[i] = "none" /\ fut'[i] # "none")
                  => (pc = "submit" /\ ~stop_requested)
       /\ (pc = "submit" /\ stop_requested) => stop_requested']_vars

\* The flag was set after k = 1 of N > 1 chunks were submitted; the loop has
\* ended and the others were never submitted.
C14_Witness ==
    /\ stop_requested
    /\ pc = "done"
    /\ next_i = 1
    /\ total_chunks > 1
    /\ Submitted = {0}

\* ----------------------------------------------------------------- C15
\* C15: at most one run at a time: while a worker exists whose run has not
\* terminated, no step (in particular no start request) creates a worker or
\* puts a run at its start.
C15_AtMostOneRun ==
    [][(WorkerExists /\ ~Terminated)
           => /\ workers_created' = workers_created
              /\ (pc' = "start" => pc = "start")]_vars

\* A start request was turned down in the middle of a run.
C15_Witness ==
    /\ start_result = "already_running"
    /\ pc = "collect"
    /\ workers_created = 1

\* ----------------------------------------------------------------- C16
\* C16: no retry: a chunk is submitted only if it was never submitted, a
\* submitted chunk never becomes unsubmitted again, and a request is sent
\* for a chunk only if none was sent for it before.
C16_NoRetry ==
    [][\A i \in AllIdx :
           /\ (fut'[i] = "queued" /\ fut[i] # "queued") => fut[i] = "none"
           /\ fut[i] # "none" => fut'[i] # "none"
           /\ (fut'[i] = "request" /\ fut[i] # "request") => i \notin posted
           /\ i \in posted => i \in posted']_vars

\* A run is over in which a chunk failed after its request and another
\* chunk's request was sent too.
C16_Witness ==
    /\ Terminated
    /\ \E i, j \in posted : i # j /\ ret[i] = "Failed"

\* ----------------------------------------------------------------- C17
\* C17 (as stated): while the run is in progress a flag that is true is
\* never reset to false.
C17_FlagNeverReset ==
    [][(is_running /\ stop_requested) => stop_requested']_vars

\* ----------------------------------------------------------------- C18
\* The collector has drained a failed completion: the fatal signal about a
\* chunk went out.
FailureDrained ==
    \E k \in DOMAIN events :
        events[k][1] = "critical_error" /\ events[k][3] = "chunk"

\* C18 (as stated): after a failed completion was drained, every completion
\* of the run is consumed by the collector before the cleanup.
C18_DrainsAllAfterFailure ==
    (FailureDrained /\ pc \in {"abort", "done"}) => Submitted \subseteq drained

\* C18 (amended): after a failed completion was drained the collector has
\* left its loop and consumes no further completion; no fetch is left in the
\* queue, and the cleanup is reached only when no fetch is in flight.
C18_StopsDrainingAfterFailure ==
    /\ [](FailureDrained =>
             /\ pc # "collect"
             /\ \A i \in AllIdx : fut[i] # "queued"
             /\ pc \in {"post", "abort", "done"} => InFlight = {})
    /\ [][FailureDrained => drained' = drained]_vars

\* A run ended after a failure while a completed fetch was never consumed.
C18_Witness ==
    /\ FailureDrained
    /\ Terminated
    /\ \E i \in Submitted \ drained : fut[i] = "done"

\* ----------------------------------------------------------------- C19
\* C19: synthesis_started goes out exactly once, then synthesis_finished
\* exactly once on every exit; _is_running is true from the first statement
\* of run() until then and false when synthesis_finished goes out, and
\* nothing follows synthesis_finished.
C19_StartedOnceFinishedOnce ==
    /\ Cardinality(Occurrences("synthesis_started")) <= 1
    /\ Cardinality(Occurrences("synthesis_finished")) <= 1
    /\ pc \notin {"start", "reset"} => events[1][1] = "synthesis_started"
    /\ Terminated <=> Emitted("synthesis_finished")
    /\ Emitted("synthesis_finished")
           => /\ events[Len(events)][1] = "synthesis_finished"
              /\ ~is_running
    /\ pc \notin {"start", "done"} => is_running

\* A run that delivered its output is over.
C19_Witness ==
    /\ Terminated
    /\ Emitted("final_output_ready")
    /\ Cardinality(Occurrences("synthesis_finished")) = 1

\* ----------------------------------------------------------------- C20
\* C20 (as stated): once the run has terminated and on_synthesis_finished
\* has handled its signal the window is idle: the "already running" test of
\* start_synthesis is false, so a start request with valid inputs starts a
\* new run.
C20_IdleAfterFinishedHandled ==
    (Terminated /\ finished_handled) => ~AlreadyRunning

\* ----------------------------------------------------------------- C21
\* C21: under fair scheduling, with network calls that return or time out,
\* every run terminates: run() returns (and has emitted synthesis_finished),
\* also after stop() or an abort with fetches queued or in flight.
C21_RunTerminates == <>(Terminated /\ Emitted("synthesis_finished"))

\* A run that was aborted by a failure while a fetch was still queued, and
\* stopped by the caller too, is over.
C21_Witness ==
    /\ Terminated
    /\ FailureDrained
    /\ \E i \in AllIdx : fut[i] = "cancelled"
    /\ \E i \in AllIdx : fut[i] = "done" /\ i \notin drained

\* ----------------------------------------------------------------- C22
\* C22: every call of the fetcher ends by returning Success, Failed or
\* Cancelled: no error of a chunk (timeout, transport failure, other status,
\* write error, failing deletion) leaves the call as an exception, and the
\* collector's `except Exception` branch is never taken.
C22_NoExceptionEscapes ==
    /\ \A i \in AllIdx :
           /\ ret[i] # "Raised"
           /\ fut[i] = "done" => ret[i] \in {"Success", "Failed", "Cancelled"}
    /\ \A k \in Occurrences("critical_error") : events[k][3] # "exception"

\* A call returned Cancelled although the deletion of its partial file
\* failed: the file is still there.
C22_Witness ==
    \E i \in AllIdx :
        /\ fut[i] = "done"
        /\ ret[i] = "Cancelled"
        /\ Exists(disk, TempPath(i + 1))

C27_ErrorsSuppressedWhenStopped ==
    [][\A i \in AllIdx :
           (/\ fut[i] \in {"request", "stream"}
            /\ stop_requested
            /\ fut'[i] = "done")
               => ret'[i] # "Failed"]_vars

\* ----------------------------------------------------------------- C28
\* C28: the streaming loop reads the flag before block 0 and before every
\* tenth block after it: no block is written by a step that starts at such a
\* point with the flag set, and a fetcher writes at most 10 blocks while the
\* flag is set.
C28_AtMostTenBlocksAfterFlag ==
    /\ [](\A i \in AllIdx : flag_blocks[i] <= 10)
    /\ [][\A i \in AllIdx :
              (fut[i] = "stream" /\ stop_requested
                                 /\ disk[TempPath(i + 1)] % 10 = 0)
                  => flag_blocks'[i] = flag_blocks[i]]_vars

\* A fetcher wrote from one check to the next with the flag set and was
\* stopped there.
C28_Witness ==
    \E i \in AllIdx :
        /\ flag_blocks[i] = 9
        /\ ret[i] = "Cancelled"

\* ----------------------------------------------------------------- C30
\* C30 (as stated): a fetcher call that has returned Failed or Cancelled has
\* left no file at its temporary path.
C30_NoArtifactAfterNonSuccess ==
    \A i \in AllIdx :
        (fut[i] = "done" /\ ret[i] \in {"Failed", "Cancelled"})
            => ~Exists(disk, TempPath(i + 1))

\* ----------------------------------------------------------------- C25
\* Positions of the progress updates emitted so far.
ProgressPositions == Occurrences("progress_update")

\* The rank of the progress update at position k among all of them.
ProgressRank(k) == Cardinality({j \in ProgressPositions : j <= k})

\* C25: every progress update carries the total N+1; the update of the k-th
\* recorded Success carries the value k, which is at most N; the value N+1 is
\* emitted at most once, after all N chunks were recorded and before the
\* combination starts.
C25_ProgressValues ==
    /\ \A k \in ProgressPositions :
          /\ events[k][4] = total_chunks + 1
          /\ events[k][3] = "collect" =>
                /\ events[k][2] = ProgressRank(k)
                /\ events[k][2] <= total_chunks
          /\ events[k][3] = "combine" =>
                /\ events[k][2] = total_chunks + 1
                /\ ProgressRank(k) = total_chunks + 1
                /\ Len(results) = total_chunks
                /\ \A j \in ProgressPositions : j <= k
                /\ \A j \in Occurrences("combine") : k < j
    /\ Cardinality({k \in ProgressPositions : events[k][3] = "collect"})
          = chunks_processed
    /\ Cardinality({k \in ProgressPositions :
                       events[k][2] = total_chunks + 1}) <= 1

\* A run of several chunks that emitted every value from 1 to N+1 and then
\* combined.
C25_Witness ==
    /\ total_chunks >= 2
    /\ \A v \in 1 .. (total_chunks + 1) :
          \E k \in ProgressPositions : events[k][2] = v
    /\ Emitted("combine")

\* ----------------------------------------------------------------- C26
\* The result store in one state: one entry per index, each for a chunk
\* whose fetch returned its path, holding the path of that chunk, as many
\* entries as the completed count and never more than N.
ResultStoreOk ==
    /\ \A j, k \in DOMAIN results : results[j][1] = results[k][1] => j = k
    /\ \A k \in DOMAIN results :
          /\ results[k][1] \in Chunks
          /\ ret[results[k][1]] = "Success"
          /\ results[k][2] = TempPath(results[k][1] + 1)
    /\ Len(results) = chunks_processed
    /\ Len(results) <= total_chunks

\* One step writes at most one slot, a slot that was empty, and does so from
\* the loop of run(); no entry is changed or removed.
ResultStoreStep ==
    \/ results' = results
    \/ /\ pc = "collect"
       /\ \E f \in Chunks \ DictKeys(results) :
             results' = Append(results, <<f, TempPath(f + 1)>>)

\* C26: the result store holds at most one entry per chunk index, each
\* written once, only with a Success and with the path of that index; its
\* size is the completed count and at most N; only run() writes it.
C26_ResultStore == []ResultStoreOk /\ [][ResultStoreStep]_vars

\* A finished run whose store holds several entries that arrived out of
\* index order.
C26_Witness ==
    /\ Terminated
    /\ Len(results) >= 2
    /\ results[1][1] > results[2][1]

\* ------------------------------------------- piper_api.py: /synthesize
\* Byte values of the synthesizer's output that are told apart.
AudioBytes == {0, 1}

\* What the synthesizer can leave on its stdout.
RECURSIVE Audios(_)
Audios(n) ==
    IF n = 0 THEN {<<>>}
    ELSE Audios(n - 1) \cup
         {Append(a, b) : a \in {x \in Audios(n - 1) : Len(x) = n - 1},
                         b \in AudioBytes}

\* A POST /synthesize: whether the content type says JSON, what the body
\* parses to, and what the object's "text" member is.
Requests ==
    [is_json : BOOLEAN,
     body    : {"malformed", "null", "list", "object"},
     text    : {"missing", "empty", "string", "number", "list"}]

\* What running the synthesizer does: whether the executable is there,
\* whether Popen or communicate raises another exception, the exit code and
\* the bytes on stdout.
ServerEnvs ==
    [executable : BOOLEAN,
     returncode : {0, 1},
     stdout     : Audios(MaxAudioLen),
     raises     : BOOLEAN]

\* return jsonify({"error": ...}), status
JsonError(status) == [status |-> status, kind |-> "json_error", body |-> <<>>]

\* An exception that leaves the view function: the framework answers with
\* its own error page (BadRequest: 400, anything else: 500).
ErrorPage(status) == [status |-> status, kind |-> "html_error", body |-> <<>>]

\* send_file(io.BytesIO(stdout_data), mimetype='audio/wav')
send_file(data) == [status |-> 200, kind |-> "audio", body |-> data]

\* `not text` for the value of data.get('text').
TextIsFalsy(t) == t \in {"missing", "empty"}

\* synthesize(): the answer to one request.
synthesize(req, env) ==
    IF ~req.is_json THEN JsonError(400)
    \* data = request.get_json()
    ELSE IF req.body = "malformed" THEN ErrorPage(400)
    \* text = data.get('text'): None and a list have no get
    ELSE IF req.body # "object" THEN ErrorPage(500)
    ELSE IF TextIsFalsy(req.text) THEN JsonError(400)
    \* text[:50]: a number cannot be sliced
    ELSE IF req.text = "number" THEN ErrorPage(500)
    \* try: subprocess.Popen(...)
    ELSE IF ~env.executable THEN JsonError(500)
    \* text.encode('utf-8'): a list has no encode; caught by except Exception
    ELSE IF req.text = "list" THEN JsonError(500)
    ELSE IF env.raises THEN JsonError(500)
    ELSE IF env.returncode # 0 THEN JsonError(500)
    ELSE IF env.stdout = <<>> THEN JsonError(500)
    ELSE send_file(env.stdout)

\* One request is handled from its arrival to its answer.
post_synthesize(req, env) ==
    /\ server_request' = req
    /\ server_env' = env
    /\ server_response' = synthesize(req, env)
    /\ UNCHANGED <<env_vars, flag_blocks, gui_vars, total_chunks, max_workers,
                   is_running, stop_requested, pc, next_i, fut, ret,
                   began_stopped, posted, disk, drained, results,
                   chunks_processed, temp_files, output, events, stop_called>>

\* The server alone: no client object exists.
InitServer ==
    /\ InitNoWorker
    /\ text = <<>>
    /\ api_url = HttpUrl
    /\ output_filepath = OutPath

NextServer == \E req \in Requests, env \in ServerEnvs : post_synthesize(req, env)

SpecServer == InitServer /\ [][NextServer]_vars

\* The request has been answered.
Answered == server_response # NoResponse

\* The request is JSON with a non-empty text, and the synthesizer ran, exited
\* with code 0 and produced output.
SynthesisSucceeded ==
    /\ server_request.is_json
    /\ server_request.body = "object"
    /\ server_request.text = "string"
    /\ server_env.executable
    /\ ~server_env.raises
    /\ server_env.returncode = 0
    /\ server_env.stdout # <<>>

\* ----------------------------------------------------------------- C29
\* C29: the endpoint answers 200 only when the request is JSON with a
\* non-empty text and the synthesizer exited with 0 and produced output, the
\* body then being that output; every other request is answered with status
\* 400 or 500 and a JSON body that has an `error` field.
C29_JsonErrorUnlessSuccess ==
    Answered =>
       /\ server_response.status = 200 =>
             /\ SynthesisSucceeded
             /\ server_response.body = server_env.stdout
       /\ ~SynthesisSucceeded =>
             /\ server_response.status \in {400, 500}
             /\ server_response.kind = "json_error"

\* ----------------------------------------------------------------- C31
\* C31: every job that start_synthesis accepts has at least one chunk (a
\* text with a non-whitespace character gives N >= 1), so no run reaches the
\* abort test or the combination with zero chunks.
C31_StartedJobHasChunk ==
    /\ WorkerExists =>
          /\ HasNonWhitespace(text) => Len(TextChunker(text)) >= 1
          /\ total_chunks >= 1
    /\ pc \in {"post", "abort", "mkdir", "combine", "finally"} =>
          total_chunks >= 1

\* ----------------------------------------------------------------- C32
\* C32: as long as the run has not emitted final_output_ready, and for good
\* when it ends without it (a combination that fails part-way included), the
\* file at the output path is as it was before the run: not created, not
\* truncated, not partly written.
C32_OutputUntouchedUnlessCompleted ==
    ~Emitted("final_output_ready") =>
        output = [exists |-> FALSE, frames |-> <<>>]
====
